---- MODULE Spec2Model ----
\* A model of seaf-web's upload command (src/src/main.rs): handle_upload and the
\* functions it calls, one action per step of the call chain, with the remote
\* service, the local file system and the terminal as the environment.
EXTENDS Integers, Sequences, FiniteSets, TLC

\* ---------------------------------------------------------------- bounds
\* Script elements per document, input elements per form, entries per upload
\* response.
MaxScripts == 2
MaxInputs == 2
MaxResps == 2

\* ------------------------------------------------------- program constants
\* The counted repetitions of the regular expression of extract_repo_id.
TokenHexLen == 20
UuidLen1 == 8
UuidLen2 == 4
UuidLen3 == 4
UuidLen4 == 4
UuidLen5 == 12

\* ------------------------------------------------------------- characters
\* Text is a sequence of one-character strings.
Rep(c, n) == [i \in 1..n |-> c]

LowerHex == {"0","1","2","3","4","5","6","7","8","9","a","b","c","d","e","f"}

\* The class [0-9a-f] as an atom of a pattern; every other atom is a literal.
HexClass == "[0-9a-f]"

PathPrefix == <<"'","/","a","j","a","x","/","u","/","d","/">>
UploadQuery == <<"/","u","p","l","o","a","d","/","?","r","=">>
Hyphen == <<"-">>
Quote == <<"'">>

\* ------------------------------------------------------ results of calls
\* An error value (Box<dyn Error>): its concrete type, its message and, for an
\* error of the HTTP client, the request it belongs to.
NoError == [type |-> "", msg |-> "", req |-> ""]
StrError(m) == [type |-> "&str", msg |-> m, req |-> ""]
ReqwestError(k, req) == [type |-> "reqwest::Error", msg |-> k, req |-> req]
IoError(m) == [type |-> "io::Error", msg |-> m, req |-> ""]
SystemTimeError == [type |-> "SystemTimeError", msg |-> "time before epoch", req |-> ""]

\* Result<T, E>; the value of an Err is a placeholder of T's shape.
Ok(v) == [ok |-> TRUE, val |-> v, err |-> NoError]
ErrStr(e) == [ok |-> FALSE, val |-> "", err |-> e]
ErrSeq(e) == [ok |-> FALSE, val |-> <<>>, err |-> e]

\* ------------------------------------------------- the regular expression
\* RE, lines 69-72: the part before the capturing group, the group, the part
\* after it.
REBefore == PathPrefix \o Rep(HexClass, TokenHexLen) \o UploadQuery
REGroup1 ==
    Rep(HexClass, UuidLen1) \o Hyphen \o Rep(HexClass, UuidLen2) \o Hyphen
    \o Rep(HexClass, UuidLen3) \o Hyphen \o Rep(HexClass, UuidLen4) \o Hyphen
    \o Rep(HexClass, UuidLen5)
REAfter == Quote
RE == REBefore \o REGroup1 \o REAfter

\* AtomMatches with a class that takes the hex digits of either case.
AtomMatches_AnyCase(atom, c) ==
    IF atom = HexClass THEN c \in LowerHex \cup {"A", "B", "C", "D", "E", "F"} ELSE c = atom

AtomMatches(atom, c) == IF atom = HexClass THEN c \in LowerHex ELSE c = atom

\* The pattern has no alternation and only counted repetitions, so it matches
\* at position i exactly when every atom matches the character at its offset.
MatchAt(text, i) ==
    /\ i + Len(RE) - 1 <= Len(text)
    /\ \A k \in 1..Len(RE) : AtomMatches(RE[k], text[i + k - 1])

\* Regex::captures: the leftmost match, and the text of group 1 in it.
captures(text) ==
    LET starts == {i \in 1..Len(text) : MatchAt(text, i)}
    IN  IF starts = {}
        THEN [some |-> FALSE, group1 |-> <<>>]
        ELSE LET i == CHOOSE s \in starts : \A t \in starts : s <= t
                 g == i + Len(REBefore)
             IN  [some |-> TRUE, group1 |-> SubSeq(text, g, g + Len(REGroup1) - 1)]

\* ---------------------------------------------------------- HTML documents
\* A parsed document, as the two selectors of the program see it: its form
\* elements in document order (each with its id and its descendant input
\* elements in order) and its script elements in document order (each the
\* sequence of its text nodes).
ShareFormId == "share-passwd-form"

Doc(forms, scripts) == [forms |-> forms, scripts |-> scripts]
Form(id, inputs) == [id |-> id, inputs |-> inputs]
InputValue(v) == [has_value |-> TRUE, value |-> v]
InputNoValue == [has_value |-> FALSE, value |-> ""]
EmptyDoc == Doc(<<>>, <<>>)

\* extract_token reading the first input of the form that has a value.
extract_token_AnyValue(document) ==
    LET matching == SelectSeq(document.forms, LAMBDA f : f.id = ShareFormId)
    IN  IF matching = <<>> THEN ErrStr(StrError("no such form"))
        ELSE LET inputs == Head(matching).inputs
                 valued == SelectSeq(inputs, LAMBDA i : i.has_value)
             IN  IF inputs = <<>> THEN ErrStr(StrError("no such input"))
                 ELSE IF valued = <<>> THEN ErrStr(StrError("no csrfmiddlewaretoken"))
                 ELSE Ok(Head(valued).value)

\* extract_token, lines 26-39.
extract_token(document) ==
    LET matching == SelectSeq(document.forms, LAMBDA f : f.id = ShareFormId)
    IN  IF matching = <<>> THEN ErrStr(StrError("no such form"))
        ELSE LET inputs == Head(matching).inputs
             IN  IF inputs = <<>> THEN ErrStr(StrError("no such input"))
                 ELSE IF ~Head(inputs).has_value THEN ErrStr(StrError("no csrfmiddlewaretoken"))
                 ELSE Ok(Head(inputs).value)

\* extract_repo_id, lines 75-82: the inner loop over the text nodes of one
\* script, the outer loop over the scripts.
RECURSIVE ScanTexts(_)
ScanTexts(texts) ==
    IF texts = <<>> THEN [some |-> FALSE, group1 |-> <<>>]
    ELSE LET caps == captures(Head(texts))
         IN  IF caps.some THEN caps ELSE ScanTexts(Tail(texts))

\* ScanScripts trying the last script first.
RECURSIVE ScanScripts_Reverse(_)
ScanScripts_Reverse(scripts) ==
    IF scripts = <<>> THEN [some |-> FALSE, group1 |-> <<>>]
    ELSE LET found == ScanTexts(scripts[Len(scripts)])
         IN  IF found.some THEN found
             ELSE ScanScripts_Reverse(SubSeq(scripts, 1, Len(scripts) - 1))

RECURSIVE ScanScripts(_)
ScanScripts(scripts) ==
    IF scripts = <<>> THEN [some |-> FALSE, group1 |-> <<>>]
    ELSE LET found == ScanTexts(Head(scripts))
         IN  IF found.some THEN found ELSE ScanScripts(Tail(scripts))

\* extract_repo_id falling back to an empty id when no script matches.
extract_repo_id_Lenient(document) ==
    LET found == ScanScripts(document.scripts)
    IN  Ok(found.group1)

extract_repo_id(document) ==
    LET found == ScanScripts(document.scripts)
    IN  IF found.some THEN Ok(found.group1) ELSE ErrSeq(StrError("invalid token/password"))

\* ------------------------------------------------------------------- JSON
\* A JSON value: its type t, its string s, its number n, its members m (of an
\* object: key and value in text order; of an array: the elements, keys
\* empty). A body that is no JSON text has type "invalid".
JStr(s) == [t |-> "str", s |-> s, n |-> 0, m |-> <<>>]
JNum(n) == [t |-> "num", s |-> "", n |-> n, m |-> <<>>]
JNull == [t |-> "null", s |-> "", n |-> 0, m |-> <<>>]
Member(k, v) == [k |-> k, v |-> v]
JObj(members) == [t |-> "obj", s |-> "", n |-> 0, m |-> members]
JArr(elems) == [t |-> "arr", s |-> "", n |-> 0, m |-> [i \in 1..Len(elems) |-> Member("", elems[i])]]
NotJson == [t |-> "invalid", s |-> "", n |-> 0, m |-> <<>>]
\* No body received yet.
NoBody == [t |-> "none", s |-> "", n |-> 0, m |-> <<>>]

\* Deserialize of a derived struct with the fields `names`, as serde_json
\* drives it: from an object, each field exactly once by key, other keys
\* ignored; from an array, the fields by position, no element missing or left
\* over. The values come in the order of `names`.
StructFields(v, names) ==
    IF v.t = "obj"
    THEN LET of(name) == SelectSeq(v.m, LAMBDA mem : mem.k = name)
         IN  IF \A i \in 1..Len(names) : Len(of(names[i])) = 1
             THEN [ok |-> TRUE, vals |-> [i \in 1..Len(names) |-> of(names[i])[1].v]]
             ELSE [ok |-> FALSE, vals |-> <<>>]
    ELSE IF v.t = "arr" /\ Len(v.m) = Len(names)
    THEN [ok |-> TRUE, vals |-> [i \in 1..Len(names) |-> v.m[i].v]]
    ELSE [ok |-> FALSE, vals |-> <<>>]

\* struct UploadUrl { url: String }, lines 85-88.
de_UploadUrl(v) ==
    LET fs == StructFields(v, <<"url">>)
    IN  IF fs.ok /\ fs.vals[1].t = "str"
        THEN [ok |-> TRUE, url |-> fs.vals[1].s]
        ELSE [ok |-> FALSE, url |-> ""]

\* struct FileUploadResp { name: String, id: String, size: usize }, lines 110-115.
NoResp == [name |-> "", id |-> "", size |-> 0]
de_FileUploadResp(v) ==
    LET fs == StructFields(v, <<"name", "id", "size">>)
    IN  IF /\ fs.ok
           /\ fs.vals[1].t = "str"
           /\ fs.vals[2].t = "str"
           /\ fs.vals[3].t = "num" /\ fs.vals[3].n >= 0
        THEN [ok |-> TRUE, val |-> [name |-> fs.vals[1].s, id |-> fs.vals[2].s, size |-> fs.vals[3].n]]
        ELSE [ok |-> FALSE, val |-> NoResp]

\* Vec<FileUploadResp>, line 125: an array every element of which decodes.
de_VecFileUploadResp(v) ==
    IF v.t = "arr" /\ \A i \in 1..Len(v.m) : de_FileUploadResp(v.m[i].v).ok
    THEN [ok |-> TRUE, val |-> [i \in 1..Len(v.m) |-> de_FileUploadResp(v.m[i].v).val]]
    ELSE [ok |-> FALSE, val |-> <<>>]

\* pop taking the first element instead of the last.
pop_Front(vec) ==
    IF vec = <<>> THEN [some |-> FALSE, val |-> NoResp, rest |-> <<>>]
    ELSE [some |-> TRUE, val |-> vec[1], rest |-> Tail(vec)]

\* Vec::pop, line 126: the last element, if any, and the rest.
pop(vec) ==
    IF vec = <<>> THEN [some |-> FALSE, val |-> NoResp, rest |-> <<>>]
    ELSE [some |-> TRUE, val |-> vec[Len(vec)], rest |-> SubSeq(vec, 1, Len(vec) - 1)]

\* The result of upload_file from the decoded body, lines 125-126.
upload_result(body) ==
    LET resps == de_VecFileUploadResp(body)
    IN  IF ~resps.ok THEN [ok |-> FALSE, val |-> NoResp, err |-> ReqwestError("decode", "POST upload")]
        ELSE LET last == pop(resps.val)
             IN  IF last.some THEN [ok |-> TRUE, val |-> last.val, err |-> NoError]
                 ELSE [ok |-> FALSE, val |-> NoResp, err |-> StrError("file upload failed")]

\* ----------------------------------------------------- the inputs of a run
SeqsUpTo(S, n) == UNION {[1..k -> S] : k \in 0..n}

\* Share tokens given on the command line: one of twenty hex digits, as the
\* service issues them, and a short one.
TokenHex == Rep("a", TokenHexLen)
TokenShort == <<"a","b","c","1","2","3">>
Tokens == {TokenHex, TokenShort}

Passwords == {"", "secret"}
CsrfValues == {"csrfA", "csrfB"}

\* Pages the first GET can return.
InputSet == {InputNoValue} \cup {InputValue(v) : v \in CsrfValues}
InputSeqs == SeqsUpTo(InputSet, MaxInputs)
OtherForm == Form("other-form", <<InputValue("csrfB")>>)
FormLists ==
    {<<>>, <<OtherForm>>}
    \cup {<<Form(ShareFormId, i)>> : i \in InputSeqs}
    \cup {<<OtherForm, Form(ShareFormId, i)>> : i \in InputSeqs}
    \cup {<<Form(ShareFormId, i), Form(ShareFormId, <<InputValue("csrfB")>>)>> : i \in InputSeqs}

\* Session ids and the script texts that carry them.
Uuid(c, d, l1, l2, l3, l4, l5) ==
    Rep(c, l1) \o Hyphen \o Rep(d, l2) \o Hyphen \o Rep(c, l3) \o Hyphen
    \o Rep(d, l4) \o Hyphen \o Rep(c, l5)
UuidA ==
    <<"1","2","3","4","5","6","7","8">> \o Hyphen \o <<"1","2","3","4">> \o Hyphen
    \o <<"1","2","3","4">> \o Hyphen \o <<"1","2","3","4">> \o Hyphen
    \o <<"1","2","3","4","5","6","7","8","9","0","1","2">>
UuidB == Uuid("b", "7", UuidLen1, UuidLen2, UuidLen3, UuidLen4, UuidLen5)
Ref(tok, uuid) == PathPrefix \o tok \o UploadQuery \o uuid \o Quote
Noise == <<"v","a","r"," ","u","=","'","/","a","j","a","x","'",";">>
OtherTokenHex == Rep("0", TokenHexLen)

GoodA == Noise \o Ref(TokenHex, UuidA) \o Noise
GoodB == Ref(OtherTokenHex, UuidB)
TwoBA == Ref(TokenHex, UuidB) \o Noise \o Ref(TokenHex, UuidA)

\* A reference whose group g of the id has d characters more than the pattern
\* asks for.
GroupLens == <<UuidLen1, UuidLen2, UuidLen3, UuidLen4, UuidLen5>>
OffLen(g, d) ==
    LET l(k) == IF k = g THEN GroupLens[k] + d ELSE GroupLens[k]
    IN  Ref(TokenHex, Uuid("c", "4", l(1), l(2), l(3), l(4), l(5)))
OffLenTexts == {OffLen(g, d) : g \in 1..5, d \in {-1, 1}}

\* Other references the pattern must not match.
UpperUuid == Ref(TokenHex, Uuid("A", "4", UuidLen1, UuidLen2, UuidLen3, UuidLen4, UuidLen5))
UpperDigit == Ref(TokenHex, <<"F">> \o Tail(UuidA))
NonHex == Ref(TokenHex, Uuid("g", "4", UuidLen1, UuidLen2, UuidLen3, UuidLen4, UuidLen5))
TokenOffLen(d) == Ref(Rep("a", TokenHexLen + d), UuidA)
UpperToken == Ref(Rep("A", TokenHexLen), UuidA)
NoClosingQuote == PathPrefix \o TokenHex \o UploadQuery \o UuidA
NoOpeningQuote == Tail(Ref(TokenHex, UuidA))
NoMatchTexts ==
    OffLenTexts
    \cup {UpperUuid, UpperDigit, NonHex, TokenOffLen(-1), TokenOffLen(1), UpperToken,
          NoClosingQuote, NoOpeningQuote}

\* A script is the sequence of its text nodes: none for an empty element, one
\* otherwise.
CoreScripts == {<<>>, <<Noise>>, <<GoodA>>, <<GoodB>>, <<TwoBA>>}
ScriptLists ==
    SeqsUpTo(CoreScripts, MaxScripts)
    \cup {<<(<<t>>)>> : t \in NoMatchTexts}
    \cup {<<(<<t>>), (<<GoodB>>)>> : t \in NoMatchTexts}
    \cup {<<(<<t \o Noise \o GoodA>>)>> : t \in NoMatchTexts}

FirstPages == {Doc(f, s) : f \in FormLists, s \in {<<>>, <<(<<GoodB>>)>>}}
SecondPages == {Doc(<<>>, s) : s \in ScriptLists}

\* Bodies the upload-URL request can return.
UrlA == "https://x/upload2/abc"
UrlB == "https://y/upload2/def"
UrlBodies ==
    {JObj(<<Member("url", JStr(UrlA))>>),
     JObj(<<Member("expires", JNum(60)), Member("url", JStr(UrlB))>>),
     JObj(<<>>),
     JObj(<<Member("error", JStr("Permission denied"))>>),
     JObj(<<Member("url", JNum(7))>>),
     JObj(<<Member("url", JNull)>>),
     JObj(<<Member("url", JStr(UrlA)), Member("url", JStr(UrlB))>>),
     JArr(<<JStr(UrlB)>>),
     JArr(<<>>),
     JArr(<<JStr(UrlA), JStr(UrlB)>>),
     JStr(UrlA),
     NotJson}

\* Bodies the upload request can return.
EntryA == JObj(<<Member("name", JStr("a.txt")), Member("id", JStr("1")), Member("size", JNum(3))>>)
EntryB == JObj(<<Member("id", JStr("2")), Member("size", JNum(9)), Member("name", JStr("b.txt"))>>)
EntryNoSize == JObj(<<Member("name", JStr("c.txt")), Member("id", JStr("3"))>>)
Entries == {EntryA, EntryB, EntryNoSize}
UploadBodies ==
    {JArr(es) : es \in SeqsUpTo(Entries, MaxResps)}
    \cup {EntryA, JObj(<<Member("error", JStr("Out of quota."))>>), NotJson}

Statuses == {200, 404}

\* ------------------------------------------------------------------ state
VARIABLES
    token,                \* TOKEN of the command line
    file_exists,          \* whether FILEPATH names an existing file now
    pc,                   \* where the run is in handle_upload
    jar,                  \* the cookies in the client's cookie store
    document,             \* the binding `document` of handle_upload
    first_page,           \* the page of line 136 once line 138 shadows it
    page_status,          \* HTTP status of the response to the page GET (0: none yet)
    password,             \* the binding `password`
    prompts,              \* how many times the password was asked for
    csrfmiddlewaretoken,  \* the value extract_token returned
    repo_id,              \* the value extract_repo_id returned
    url_body,             \* the JSON body of the response to the upload-URL GET
    upload_url,           \* the binding `upload_url`
    upload_body,          \* the JSON body of the response to the upload POST
    resp,                 \* the binding `resp`
    stdout,               \* the lines println! wrote (the prompt is counted in prompts)
    error,                \* the Err that handle_upload, and so main, returns
    requests,             \* the HTTP requests sent, in order
    started,              \* the stages begun, in order
    completed             \* the stages that returned their output, in order

vars ==
    <<token, first_page, file_exists, pc, jar, document, page_status, password, prompts,
      csrfmiddlewaretoken, repo_id, url_body, upload_url, upload_body, resp, stdout,
      error, requests, started, completed>>

Terminal == {"done", "failed", "panicked"}

\* The six stages of a run, in the order handle_upload calls them.
StageOrder ==
    <<"page_fetch", "form_token", "password_submit", "session_id", "upload_url", "file_upload">>

\* Request with the upload POST sent through a client of its own.
Request_FreshClient(kind, tok, csrf, pw, rid, url) ==
    [kind |-> kind, token |-> tok, csrfmiddlewaretoken |-> csrf, password |-> pw,
     repo_id |-> rid, url |-> url, cookies |-> IF kind = "POST upload" THEN {} ELSE jar]

\* One HTTP request as it leaves the client.
Request(kind, tok, csrf, pw, rid, url) ==
    [kind |-> kind, token |-> tok, csrfmiddlewaretoken |-> csrf, password |-> pw,
     repo_id |-> rid, url |-> url, cookies |-> jar]

Init ==
    /\ token \in Tokens
    /\ file_exists \in BOOLEAN
    /\ pc = "start"
    /\ jar = {}
    /\ document = EmptyDoc
    /\ first_page = EmptyDoc
    /\ page_status = 0
    /\ password = ""
    /\ prompts = 0
    /\ csrfmiddlewaretoken = ""
    /\ repo_id = <<>>
    /\ url_body = NoBody
    /\ upload_url = ""
    /\ upload_body = NoBody
    /\ resp = NoResp
    /\ stdout = <<>>
    /\ error = NoError
    /\ requests = <<>>
    /\ started = <<>>
    /\ completed = <<>>

\* Fail reporting one message for every failure.
Fail_Generic(e) ==
    /\ pc' = "failed"
    /\ error' = StrError("upload failed")

\* `?` on an Err, in handle_upload (lines 133-140) and then in main (line 159):
\* the run ends and main returns that error.
Fail(e) ==
    /\ pc' = "failed"
    /\ error' = e

\* ---------------------------------------------------------------- actions
\* CheckFile without the existence check of lines 132-134.
CheckFile_NoCheck ==
    /\ pc = "start"
    /\ pc' = "build_client"
    /\ UNCHANGED <<token, first_page, file_exists, jar, document, page_status, password, prompts,
                   csrfmiddlewaretoken, repo_id, url_body, upload_url, upload_body, resp,
                   stdout, error, requests, started, completed>>

\* Lines 130-134: the existence check of FILEPATH.
CheckFile ==
    /\ pc = "start"
    /\ IF ~file_exists
       THEN Fail(StrError("no such file"))
       ELSE pc' = "build_client" /\ error' = error
    /\ UNCHANGED <<token, first_page, file_exists, jar, document, page_status, password, prompts,
                   csrfmiddlewaretoken, repo_id, url_body, upload_url, upload_body, resp,
                   stdout, requests, started, completed>>

\* BuildClient starting over when the client cannot be built.
BuildClient_Retry ==
    /\ pc = "build_client"
    /\ \E built \in BOOLEAN :
        IF built
        THEN pc' = "get_first_page" /\ jar' = {} /\ error' = error
        ELSE pc' = "start" /\ jar' = jar /\ error' = error
    /\ UNCHANGED <<token, first_page, file_exists, document, page_status, password, prompts,
                   csrfmiddlewaretoken, repo_id, url_body, upload_url, upload_body, resp,
                   stdout, requests, started, completed>>

\* Line 135: the client, with no timeout and an empty cookie store.
BuildClient ==
    /\ pc = "build_client"
    /\ \E built \in BOOLEAN :
        IF built
        THEN pc' = "get_first_page" /\ jar' = {} /\ error' = error
        ELSE Fail(ReqwestError("builder", "")) /\ jar' = jar
    /\ UNCHANGED <<token, first_page, file_exists, document, page_status, password, prompts,
                   csrfmiddlewaretoken, repo_id, url_body, upload_url, upload_body, resp,
                   stdout, requests, started, completed>>

\* get_first_page, lines 19-21: the GET of {BASE_URL}/u/d/{token}/ is sent.
SendFirstPage ==
    /\ pc = "get_first_page"
    /\ requests' = Append(requests, Request("GET page", token, "", "", <<>>, ""))
    /\ started' = Append(started, "page_fetch")
    /\ pc' = "wait_first_page"
    /\ UNCHANGED <<token, first_page, file_exists, jar, document, page_status, password, prompts,
                   csrfmiddlewaretoken, repo_id, url_body, upload_url, upload_body, resp,
                   stdout, error, completed>>

\* RecvFirstPage sending the GET again after a transport error.
RecvFirstPage_Retry ==
    /\ pc = "wait_first_page"
    /\ \/ /\ pc' = "get_first_page"
          /\ UNCHANGED <<jar, document, page_status, completed, error>>
       \/ \E status \in Statuses, set_cookie \in {{}, {"csrftoken"}} :
            /\ jar' = jar \cup set_cookie
            /\ page_status' = status
            /\ \/ /\ Fail(ReqwestError("body", "GET page"))
                  /\ UNCHANGED <<document, completed>>
               \/ \E body \in FirstPages :
                    /\ document' = body
                    /\ completed' = Append(completed, "page_fetch")
                    /\ pc' = "prompt_password"
                    /\ error' = error
    /\ UNCHANGED <<token, first_page, file_exists, password, prompts, csrfmiddlewaretoken, repo_id,
                   url_body, upload_url, upload_body, resp, stdout, requests, started>>

\* get_first_page, lines 21-23: send() returns an error, or a response of any
\* status whose cookies go to the store; text() returns an error or the body,
\* which is parsed.
RecvFirstPage ==
    /\ pc = "wait_first_page"
    /\ \/ /\ Fail(ReqwestError("request", "GET page"))
          /\ UNCHANGED <<jar, document, page_status, completed>>
       \/ \E status \in Statuses, set_cookie \in {{}, {"csrftoken"}} :
            /\ jar' = jar \cup set_cookie
            /\ page_status' = status
            /\ \/ /\ Fail(ReqwestError("body", "GET page"))
                  /\ UNCHANGED <<document, completed>>
               \/ \E body \in FirstPages :
                    /\ document' = body
                    /\ completed' = Append(completed, "page_fetch")
                    /\ pc' = "prompt_password"
                    /\ error' = error
    /\ UNCHANGED <<token, first_page, file_exists, password, prompts, csrfmiddlewaretoken, repo_id,
                   url_body, upload_url, upload_body, resp, stdout, requests, started>>

\* PromptPassword asking for the password and then for its confirmation.
PromptPassword_Twice ==
    /\ pc = "prompt_password"
    /\ prompts' = prompts + 2
    /\ \/ \E typed \in Passwords : password' = typed /\ pc' = "extract_token"
       \/ password' = password /\ pc' = "panicked"
    /\ UNCHANGED <<token, first_page, file_exists, jar, document, page_status,
                   csrfmiddlewaretoken, repo_id, url_body, upload_url, upload_body, resp,
                   stdout, error, requests, started, completed>>

\* Line 137: the password is read from the terminal; unwrap() panics when the
\* read fails.
PromptPassword ==
    /\ pc = "prompt_password"
    /\ prompts' = prompts + 1
    /\ \/ \E typed \in Passwords : password' = typed /\ pc' = "extract_token"
       \/ password' = password /\ pc' = "panicked"
    /\ UNCHANGED <<token, first_page, file_exists, jar, document, page_status, csrfmiddlewaretoken,
                   repo_id, url_body, upload_url, upload_body, resp, stdout, error,
                   requests, started, completed>>

\* Line 138, the argument extract_token(&document)?.
ExtractToken ==
    /\ pc = "extract_token"
    /\ started' = Append(started, "form_token")
    /\ LET r == extract_token(document)
       IN  IF r.ok
           THEN /\ csrfmiddlewaretoken' = r.val
                /\ completed' = Append(completed, "form_token")
                /\ pc' = "post_password"
                /\ error' = error
           ELSE /\ Fail(r.err)
                /\ UNCHANGED <<csrfmiddlewaretoken, completed>>
    /\ UNCHANGED <<token, first_page, file_exists, jar, document, page_status, password, prompts,
                   repo_id, url_body, upload_url, upload_body, resp, stdout, requests>>

\* SendPassword refusing an empty password before any request.
SendPassword_RejectEmpty ==
    /\ pc = "post_password"
    /\ started' = Append(started, "password_submit")
    /\ IF password = ""
       THEN /\ Fail(StrError("empty password"))
            /\ requests' = requests
       ELSE /\ requests' = Append(requests,
                    Request("POST password", token, csrfmiddlewaretoken, password, <<>>, ""))
            /\ pc' = "wait_password"
            /\ error' = error
    /\ UNCHANGED <<token, first_page, file_exists, jar, document, page_status, password,
                   prompts, csrfmiddlewaretoken, repo_id, url_body, upload_url, upload_body,
                   resp, stdout, completed>>

\* post_password, lines 55-62: the POST of the form to {BASE_URL}/u/d/{token}/.
SendPassword ==
    /\ pc = "post_password"
    /\ requests' = Append(requests,
            Request("POST password", token, csrfmiddlewaretoken, password, <<>>, ""))
    /\ started' = Append(started, "password_submit")
    /\ pc' = "wait_password"
    /\ UNCHANGED <<token, first_page, file_exists, jar, document, page_status, password, prompts,
                   csrfmiddlewaretoken, repo_id, url_body, upload_url, upload_body, resp,
                   stdout, error, completed>>

\* post_password, lines 62-64, and the rebinding of `document` in line 138:
\* the page of line 136 is shadowed, not dropped; the forms of it were read by
\* extract_token and only its scripts are kept.
RecvPassword ==
    /\ pc = "wait_password"
    /\ \/ /\ Fail(ReqwestError("request", "POST password"))
          /\ UNCHANGED <<jar, document, first_page, completed>>
       \/ \E set_cookie \in {{}, {"sessionid"}} :
            /\ jar' = jar \cup set_cookie
            /\ \/ /\ Fail(ReqwestError("body", "POST password"))
                  /\ UNCHANGED <<document, first_page, completed>>
               \/ \E body \in SecondPages :
                    /\ document' = body
                    /\ first_page' = Doc(<<>>, document.scripts)
                    /\ completed' = Append(completed, "password_submit")
                    /\ pc' = "extract_repo_id"
                    /\ error' = error
    /\ UNCHANGED <<token, file_exists, page_status, password, prompts, csrfmiddlewaretoken,
                   repo_id, url_body, upload_url, upload_body, resp, stdout, requests,
                   started>>

\* ExtractRepoId taking a session id only from a page that names the run's own
\* token in the upload path.
ExtractRepoId_OwnTokenOnly ==
    /\ pc = "extract_repo_id"
    /\ started' = Append(started, "session_id")
    /\ LET r == extract_repo_id(document)
           path == PathPrefix \o token \o UploadQuery
           own == \E i \in 1..Len(document.scripts) :
                    \E j \in 1..Len(document.scripts[i]) :
                      LET text == document.scripts[i][j]
                      IN  \E p \in 1..Len(text) :
                            /\ p + Len(path) - 1 <= Len(text)
                            /\ SubSeq(text, p, p + Len(path) - 1) = path
       IN  IF r.ok /\ own
           THEN /\ repo_id' = r.val
                /\ completed' = Append(completed, "session_id")
                /\ pc' = "get_upload_url"
                /\ error' = error
           ELSE /\ Fail(StrError("invalid token/password"))
                /\ UNCHANGED <<repo_id, completed>>
    /\ UNCHANGED <<token, first_page, file_exists, jar, document, page_status, password,
                   prompts, csrfmiddlewaretoken, url_body, upload_url, upload_body, resp,
                   stdout, requests>>

\* ExtractRepoId reading the page of the initial GET.
ExtractRepoId_FirstPage ==
    /\ pc = "extract_repo_id"
    /\ started' = Append(started, "session_id")
    /\ LET r == extract_repo_id(first_page)
       IN  IF r.ok
           THEN /\ repo_id' = r.val
                /\ completed' = Append(completed, "session_id")
                /\ pc' = "get_upload_url"
                /\ error' = error
           ELSE /\ Fail(r.err)
                /\ UNCHANGED <<repo_id, completed>>
    /\ UNCHANGED <<token, first_page, file_exists, jar, document, page_status, password,
                   prompts, csrfmiddlewaretoken, url_body, upload_url, upload_body, resp,
                   stdout, requests>>

\* Line 139, the argument extract_repo_id(&document)?.
ExtractRepoId ==
    /\ pc = "extract_repo_id"
    /\ started' = Append(started, "session_id")
    /\ LET r == extract_repo_id(document)
       IN  IF r.ok
           THEN /\ repo_id' = r.val
                /\ completed' = Append(completed, "session_id")
                /\ pc' = "get_upload_url"
                /\ error' = error
           ELSE /\ Fail(r.err)
                /\ UNCHANGED <<repo_id, completed>>
    /\ UNCHANGED <<token, first_page, file_exists, jar, document, page_status, password, prompts,
                   csrfmiddlewaretoken, url_body, upload_url, upload_body, resp, stdout,
                   requests>>

\* get_upload_url, lines 95-105: the URL is built, which fails when the clock
\* is before the epoch, and the GET is sent. repo_id was the last thing read
\* from `document`: from here on no line of the program can observe either
\* page, and the model forgets them.
SendUploadUrl ==
    /\ pc = "get_upload_url"
    /\ started' = Append(started, "upload_url")
    /\ document' = EmptyDoc
    /\ first_page' = EmptyDoc
    /\ \E clock_after_epoch \in BOOLEAN :
        IF clock_after_epoch
        THEN /\ requests' = Append(requests,
                    Request("GET upload-url", token, "", "", repo_id, ""))
             /\ pc' = "wait_upload_url"
             /\ error' = error
        ELSE /\ Fail(SystemTimeError)
             /\ requests' = requests
    /\ UNCHANGED <<token, file_exists, jar, page_status, password, prompts,
                   csrfmiddlewaretoken, repo_id, url_body, upload_url, upload_body, resp,
                   stdout, completed>>

\* get_upload_url, lines 105-107: the body is decoded as UploadUrl.
RecvUploadUrl ==
    /\ pc = "wait_upload_url"
    /\ \/ /\ Fail(ReqwestError("request", "GET upload-url"))
          /\ UNCHANGED <<url_body, upload_url, completed>>
       \/ \E body \in UrlBodies :
            /\ url_body' = body
            /\ LET r == de_UploadUrl(body)
               IN  IF r.ok
                   THEN /\ upload_url' = r.url
                        /\ completed' = Append(completed, "upload_url")
                        /\ pc' = "upload_file"
                        /\ error' = error
                   ELSE /\ Fail(ReqwestError("decode", "GET upload-url"))
                        /\ UNCHANGED <<upload_url, completed>>
    /\ UNCHANGED <<token, first_page, file_exists, jar, document, page_status, password, prompts,
                   csrfmiddlewaretoken, repo_id, upload_body, resp, stdout, requests,
                   started>>

\* SendUpload relying on the check made when the run started.
SendUpload_NoOpenCheck ==
    /\ pc = "upload_file"
    /\ started' = Append(started, "file_upload")
    /\ requests' = Append(requests, Request("POST upload", <<>>, "", "", <<>>, upload_url))
    /\ pc' = "wait_upload"
    /\ error' = error
    /\ UNCHANGED <<token, first_page, file_exists, jar, document, page_status, password,
                   prompts, csrfmiddlewaretoken, repo_id, url_body, upload_url, upload_body,
                   resp, stdout, completed>>

\* SendUpload printing a progress line before the POST.
SendUpload_Progress ==
    /\ pc = "upload_file"
    /\ started' = Append(started, "file_upload")
    /\ stdout' = Append(stdout, <<"uploading", upload_url, 0>>)
    /\ IF file_exists
       THEN /\ requests' = Append(requests,
                    Request("POST upload", <<>>, "", "", <<>>, upload_url))
            /\ pc' = "wait_upload"
            /\ error' = error
       ELSE /\ Fail(IoError("No such file or directory"))
            /\ requests' = requests
    /\ UNCHANGED <<token, first_page, file_exists, jar, document, page_status, password, prompts,
                   csrfmiddlewaretoken, repo_id, url_body, upload_url, upload_body, resp,
                   completed>>

\* upload_file, lines 122-125: the form is built, which opens the file, and the
\* POST is sent to `url`.
SendUpload ==
    /\ pc = "upload_file"
    /\ started' = Append(started, "file_upload")
    /\ IF file_exists
       THEN /\ requests' = Append(requests,
                    Request("POST upload", <<>>, "", "", <<>>, upload_url))
            /\ pc' = "wait_upload"
            /\ error' = error
       ELSE /\ Fail(IoError("No such file or directory"))
            /\ requests' = requests
    /\ UNCHANGED <<token, first_page, file_exists, jar, document, page_status, password, prompts,
                   csrfmiddlewaretoken, repo_id, url_body, upload_url, upload_body, resp,
                   stdout, completed>>

\* upload_file, lines 125-126, and lines 140-142: the body is decoded, its last
\* entry becomes `resp` and is printed.
RecvUpload ==
    /\ pc = "wait_upload"
    /\ \/ /\ Fail(ReqwestError("request", "POST upload"))
          /\ UNCHANGED <<upload_body, resp, stdout, completed>>
       \/ \E body \in UploadBodies :
            /\ upload_body' = body
            /\ LET r == upload_result(body)
               IN  IF r.ok
                   THEN /\ resp' = r.val
                        /\ stdout' = Append(stdout, <<r.val.id, r.val.name, r.val.size>>)
                        /\ completed' = Append(completed, "file_upload")
                        /\ pc' = "done"
                        /\ error' = error
                   ELSE /\ Fail(r.err)
                        /\ UNCHANGED <<resp, stdout, completed>>
    /\ UNCHANGED <<token, first_page, file_exists, jar, document, page_status, password, prompts,
                   csrfmiddlewaretoken, repo_id, url_body, upload_url, requests, started>>

\* Another process removes the file while the run is under way.
RemoveFile ==
    /\ pc \notin Terminal
    /\ file_exists
    /\ file_exists' = FALSE
    /\ UNCHANGED <<token, first_page, pc, jar, document, page_status, password, prompts,
                   csrfmiddlewaretoken, repo_id, url_body, upload_url, upload_body, resp,
                   stdout, error, requests, started, completed>>

Next ==
    \/ CheckFile
    \/ BuildClient
    \/ SendFirstPage
    \/ RecvFirstPage
    \/ PromptPassword
    \/ ExtractToken
    \/ SendPassword
    \/ RecvPassword
    \/ ExtractRepoId
    \/ SendUploadUrl
    \/ RecvUploadUrl
    \/ SendUpload
    \/ RecvUpload
    \/ RemoveFile

Spec == Init /\ [][Next]_vars

\* The positions of a run in handle_upload, the values of pc.
Positions ==
    {"start", "build_client", "get_first_page", "wait_first_page", "prompt_password",
     "extract_token", "post_password", "wait_password", "extract_repo_id",
     "get_upload_url", "wait_upload_url", "upload_file", "wait_upload"} \cup Terminal

\* The run leaves the position it is at: the step it is about to take is
\* taken, or the call it waits in returns. Every step of the program is one,
\* and the step of the other process is none.
Returns ==
    /\ pc \notin Terminal
    /\ pc' \in Positions \ {pc}

\* The runs in which every call that was made returns: the client has no
\* timeout (line 135), so that a response arrives, or the prompt is answered,
\* is an assumption about the network and the user.
SpecLive == Init /\ [][Next]_vars /\ WF_pc(Returns)

\* ----------------------------------------------------------------- claims
Sent(kind) == \E i \in 1..Len(requests) : requests[i].kind = kind
IsPrefix(s, t) == Len(s) <= Len(t) /\ SubSeq(t, 1, Len(s)) = s
NoSuchFile == StrError("no such file")
InvalidCredentials == StrError("invalid token/password")

\* C1: when the file does not exist as the upload command starts, the run
\* fails with "no such file"; a run that failed so has sent no HTTP request of
\* any kind, has begun no stage and has not asked for the password.
C1_MissingFileFailsBeforeNetwork ==
    [][/\ (pc = "start" /\ ~file_exists) =>
            (pc' = "failed" /\ error' = NoSuchFile)
       /\ (error' = NoSuchFile) =>
            (pc' = "failed" /\ requests' = <<>> /\ started' = <<>> /\ prompts' = 0
             /\ jar' = {})]_vars

C1_Witness ==
    /\ pc = "failed"
    /\ error = NoSuchFile
    /\ ~file_exists
    /\ requests = <<>>

\* Whether no text node of any script of the document holds a match of RE.
NoScriptMatches(doc) ==
    \A i \in 1..Len(doc.scripts) : \A j \in 1..Len(doc.scripts[i]) :
        \A p \in 1..Len(doc.scripts[i][j]) : ~MatchAt(doc.scripts[i][j], p)

\* C2: when the page the password POST returned has no script matching the
\* session-id pattern, the run fails with "invalid token/password", and a run
\* that failed so has sent exactly the page GET and the password POST: neither
\* the upload-URL GET nor the upload POST.
C2_NoSessionIdNoUpload ==
    [][/\ (pc = "extract_repo_id" /\ pc' # pc /\ NoScriptMatches(document)) =>
            (pc' = "failed" /\ error' = InvalidCredentials /\ requests' = requests)
       /\ (error' = InvalidCredentials) =>
            /\ pc' = "failed"
            /\ NoScriptMatches(document')
            /\ [i \in 1..Len(requests') |-> requests'[i].kind] = <<"GET page", "POST password">>
            /\ "upload_url" \notin {started'[i] : i \in 1..Len(started')}
            /\ "file_upload" \notin {started'[i] : i \in 1..Len(started')}]_vars

C2_Witness ==
    /\ pc = "failed"
    /\ error = InvalidCredentials
    /\ Len(document.scripts) > 0
    /\ ~Sent("GET upload-url")
    /\ ~Sent("POST upload")

\* C3 as the specification states it: once the page GET has been answered with
\* a non-success status, the run has failed with an error of that request, the
\* form token has not been extracted and the password POST has not been sent.
IsSuccess(status) == status >= 200 /\ status <= 299
C3_NonSuccessStatusFails ==
    (page_status # 0 /\ ~IsSuccess(page_status)) =>
        /\ pc = "failed"
        /\ error.type = "reqwest::Error" /\ error.req = "GET page"
        /\ started = <<"page_fetch">>
        /\ ~Sent("POST password")

\* The kinds of the requests sent, in order, and the order handle_upload sends
\* them in.
Kinds(reqs) == [i \in 1..Len(reqs) |-> reqs[i].kind]
RequestOrder == <<"GET page", "POST password", "GET upload-url", "POST upload">>
\* The stage whose call sends each kind of request.
StageOfRequest(kind) ==
    CASE kind = "GET page" -> "page_fetch"
      [] kind = "POST password" -> "password_submit"
      [] kind = "GET upload-url" -> "upload_url"
      [] kind = "POST upload" -> "file_upload"
InSeq(x, q) == \E i \in 1..Len(q) : q[i] = x

\* C4: the stages begin only in the order page fetch, form token, password
\* submission, session id, upload URL, file upload, each at most once and only
\* when every stage before it has returned its output; the four requests are
\* sent in their order, each at most once and by its own stage; and a step
\* never undoes a stage or a request.
C4_SinglePassInOrder ==
    [][/\ IsPrefix(started', StageOrder)
       /\ IsPrefix(completed', started')
       /\ Len(started') <= Len(completed') + 1
       /\ IsPrefix(Kinds(requests'), RequestOrder)
       /\ \A i \in 1..Len(requests') : InSeq(StageOfRequest(requests'[i].kind), started')
       /\ IsPrefix(started, started') /\ Len(started') <= Len(started) + 1
       /\ IsPrefix(completed, completed')
       /\ IsPrefix(requests, requests') /\ Len(requests') <= Len(requests) + 1
       /\ (started' # started) => (completed = started)]_vars

C4_Witness ==
    /\ pc = "done"
    /\ started = StageOrder
    /\ completed = StageOrder
    /\ Kinds(requests) = RequestOrder

\* The stage an error value comes from; "" for the errors raised before the
\* first stage.
StageOfError(e) ==
    CASE e = NoSuchFile -> ""
      [] e.type = "reqwest::Error" /\ e.msg = "builder" -> ""
      [] e.type = "reqwest::Error" /\ e.msg # "builder" -> StageOfRequest(e.req)
      [] e \in {StrError("no such form"), StrError("no such input"),
                StrError("no csrfmiddlewaretoken")} -> "form_token"
      [] e = InvalidCredentials -> "session_id"
      [] e = SystemTimeError -> "upload_url"
      [] e.type = "io::Error" -> "file_upload"
      [] e = StrError("file upload failed") -> "file_upload"
      [] OTHER -> "unknown"

\* The stage that has begun and not returned its output; "" when there is none.
PendingStage == IF Len(started) > Len(completed) THEN started[Len(started)] ELSE ""

\* C5: a failure is final: from a failed run no step is taken (no later stage,
\* no further request, no retry), a run fails only in the stage that is under
\* way, and the error main returns is the error of that stage.
C5_FailureIsTerminal ==
    [][/\ pc # "failed"
       /\ (pc' = "failed") =>
            /\ error' # NoError
            /\ requests' = requests
            /\ completed' = completed
            /\ StageOfError(error') = (IF Len(started') > Len(completed') THEN started'[Len(started')] ELSE "")
       /\ (pc' # "failed") => (error' = NoError)]_vars

C5_Witness ==
    /\ pc = "failed"
    /\ PendingStage = "password_submit"
    /\ error = ReqwestError("request", "POST password")
    /\ Kinds(requests) = <<"GET page", "POST password">>

\* The value of member k of a JSON object, and whether an object is an
\* upload-result entry: name and id strings, size a non-negative integer.
Field(e, k) == e.m[CHOOSE i \in 1..Len(e.m) : e.m[i].k = k].v
IsUploadEntry(e) ==
    /\ e.t = "obj"
    /\ \A k \in {"name", "id", "size"} : Cardinality({i \in 1..Len(e.m) : e.m[i].k = k}) = 1
    /\ Field(e, "name").t = "str"
    /\ Field(e, "id").t = "str"
    /\ Field(e, "size").t = "num" /\ Field(e, "size").n >= 0

\* C6: when the upload POST returned a JSON array, then: if it is empty the
\* run has failed with "file upload failed" and there is no result; if its
\* elements are upload-result entries, whatever their number, the result is
\* the id, name and size of the last one (and that is what is printed); and if
\* an element is no such entry the run has failed in decoding, without result.
C6_LastEntryIsResult ==
    (upload_body.t = "arr") =>
        LET n == Len(upload_body.m)
        IN  IF n = 0
            THEN pc = "failed" /\ error = StrError("file upload failed")
                 /\ resp = NoResp /\ stdout = <<>>
            ELSE IF \A i \in 1..n : IsUploadEntry(upload_body.m[i].v)
            THEN LET last == upload_body.m[n].v
                 IN  /\ pc = "done" /\ error = NoError
                     /\ resp.id = Field(last, "id").s
                     /\ resp.name = Field(last, "name").s
                     /\ resp.size = Field(last, "size").n
                     /\ stdout = <<(<<resp.id, resp.name, resp.size>>)>>
            ELSE pc = "failed" /\ error = ReqwestError("decode", "POST upload")
                 /\ resp = NoResp /\ stdout = <<>>

C6_Witness ==
    /\ pc = "done"
    /\ upload_body = JArr(<<EntryA, EntryB>>)
    /\ resp = [name |-> "b.txt", id |-> "2", size |-> 9]

\* Where the pattern matches: in a text, in a script, and the first of each.
TextMatches(t) == \E p \in 1..Len(t) : MatchAt(t, p)
ScriptMatches(sc) == \E j \in 1..Len(sc) : TextMatches(sc[j])
Least(S) == CHOOSE x \in S : \A y \in S : x <= y
FirstMatchId(doc) ==
    LET i == Least({k \in 1..Len(doc.scripts) : ScriptMatches(doc.scripts[k])})
        sc == doc.scripts[i]
        t == sc[Least({k \in 1..Len(sc) : TextMatches(sc[k])})]
        p == Least({k \in 1..Len(t) : MatchAt(t, k)})
    IN  SubSeq(t, p + Len(REBefore), p + Len(REBefore) + Len(REGroup1) - 1)

\* C7: the session id extract_repo_id returns is the one captured at the
\* leftmost match in the first script, in document order, that holds a match:
\* scripts before it without a match are passed over without error, and
\* neither a later script nor a later match in the same script changes it.
C7_FirstMatchOfFirstScript ==
    (pc = "get_upload_url") =>
        /\ ~NoScriptMatches(document)
        /\ repo_id = FirstMatchId(document)
        /\ error = NoError

C7_Witness ==
    /\ pc = "get_upload_url"
    /\ document.scripts = <<(<<Noise>>), (<<TwoBA>>)>>
    /\ repo_id = UuidB

\* The forms of a document that carry the share-password id, by position.
ShareForms(doc) == {i \in 1..Len(doc.forms) : doc.forms[i].id = ShareFormId}

\* C8: once extract_token has run on the fetched page: without a share-password
\* form the run has failed with "no such form"; with a form without input,
\* with "no such input"; when the form's first input has no value attribute,
\* with "no csrfmiddlewaretoken", whatever the inputs after it; otherwise the
\* token is the value of that first input. The three errors differ.
C8_FormTokenOrItsError ==
    (Len(started) = 2 /\ started[2] = "form_token") =>
        /\ IF ShareForms(document) = {}
           THEN pc = "failed" /\ error = StrError("no such form")
           ELSE LET form == document.forms[Least(ShareForms(document))]
                IN  IF Len(form.inputs) = 0
                    THEN pc = "failed" /\ error = StrError("no such input")
                    ELSE IF ~form.inputs[1].has_value
                    THEN pc = "failed" /\ error = StrError("no csrfmiddlewaretoken")
                    ELSE /\ pc = "post_password" /\ error = NoError
                         /\ csrfmiddlewaretoken = form.inputs[1].value
        /\ (pc = "failed") => (csrfmiddlewaretoken = "" /\ ~Sent("POST password"))

C8_Witness ==
    /\ pc = "failed"
    /\ error = StrError("no csrfmiddlewaretoken")
    /\ document.forms = <<Form(ShareFormId, <<InputNoValue, InputValue("csrfA")>>)>>

\* The shape 8-4-4-4-12 of lowercase hex digits, written out.
IsCanonicalUuid(s) ==
    /\ Len(s) = 36
    /\ \A i \in 1..36 : IF i \in {9, 14, 19, 24} THEN s[i] = "-" ELSE s[i] \in LowerHex

\* Whether position g of a text starts a session id in its context: the quoted
\* path with twenty lowercase hex digits, "/upload/?r=", the id, a quote.
CandidateAt(t, g) ==
    LET a == g - Len(UploadQuery) - 20 - Len(PathPrefix)
    IN  /\ a >= 1
        /\ g + 36 <= Len(t)
        /\ SubSeq(t, a, a + Len(PathPrefix) - 1) = PathPrefix
        /\ \A k \in (a + Len(PathPrefix))..(g - Len(UploadQuery) - 1) : t[k] \in LowerHex
        /\ SubSeq(t, g - Len(UploadQuery), g - 1) = UploadQuery
        /\ IsCanonicalUuid(SubSeq(t, g, g + 35))
        /\ t[g + 36] = "'"
AllTexts(doc) ==
    UNION {{doc.scripts[i][j] : j \in 1..Len(doc.scripts[i])} : i \in 1..Len(doc.scripts)}
Candidates(doc) ==
    UNION {{SubSeq(t, g, g + 35) : g \in {h \in 1..Len(t) : CandidateAt(t, h)}} :
            t \in AllTexts(doc)}

\* C9: a session id, once returned, has exactly the shape 8-4-4-4-12 of
\* lowercase hex digits and stands, character for character, in a script of
\* the page in the context the pattern asks for; a page without such an
\* occurrence (a group of the id longer or shorter, an uppercase or non-hex
\* digit, a path segment of another length, a missing quote) yields no id and
\* the run fails with "invalid token/password".
C9_OnlyCanonicalUuid ==
    /\ (repo_id # <<>>) => IsCanonicalUuid(repo_id)
    /\ (pc = "get_upload_url") => (repo_id \in Candidates(document))
    /\ (Len(started) = 4 /\ started[4] = "session_id") =>
        /\ (Candidates(document) = {}) <=> (pc = "failed" /\ error = InvalidCredentials)
        /\ (AllTexts(document) \subseteq NoMatchTexts) =>
                (pc = "failed" /\ error = InvalidCredentials)
        /\ (pc = "failed") => (repo_id = <<>>)

C9_Witness ==
    /\ pc = "get_upload_url"
    /\ document.scripts = <<(<<OffLen(1, 1) \o Noise \o GoodA>>)>>
    /\ repo_id = UuidA

\* C10 as the specification states it: the upload POST goes to the string of
\* the url member of the JSON object the upload-URL GET returned; and once
\* that response is in, unless it is a JSON object with a string member url,
\* the run has failed in decoding and no upload POST is sent.
HasUrlField(body) ==
    /\ body.t = "obj"
    /\ \E i \in 1..Len(body.m) : body.m[i].k = "url" /\ body.m[i].v.t = "str"
C10_PostGoesToUrlField ==
    /\ \A i \in 1..Len(requests) :
        (requests[i].kind = "POST upload") =>
            /\ HasUrlField(url_body)
            /\ requests[i].url = Field(url_body, "url").s
    /\ (url_body # NoBody /\ ~HasUrlField(url_body)) =>
            /\ pc = "failed"
            /\ error = ReqwestError("decode", "GET upload-url")
            /\ ~Sent("POST upload")


\* C11: the line "<id> <name> <size>" is printed once, in the step that ends a
\* run all of whose stages returned their output, and it carries the id, name
\* and size of the last entry of the upload response; before that step, and in
\* every run that does not end so, println! has written nothing.
C11_ResultPrintedOnceOnSuccess ==
    [][/\ (pc' # "done") => (stdout' = <<>>)
       /\ (pc' = "done") =>
            /\ pc = "wait_upload" /\ stdout = <<>>
            /\ completed' = StageOrder
            /\ Kinds(requests') = RequestOrder
            /\ upload_body'.t = "arr" /\ Len(upload_body'.m) >= 1
            /\ LET last == upload_body'.m[Len(upload_body'.m)].v
               IN  /\ IsUploadEntry(last)
                   /\ stdout' = <<(<<Field(last, "id").s, Field(last, "name").s,
                                      Field(last, "size").n>>)>>]_vars

C11_Witness ==
    /\ pc = "done"
    /\ upload_body = JArr(<<EntryB>>)
    /\ stdout = <<(<<"2", "b.txt", 9>>)>>


\* C12: every request of a run goes through the one cookie store of the one
\* client: a step never takes a cookie out of the store, each request is
\* issued with the store as it stands, and so the upload-URL GET and the
\* upload POST have all the cookies that the responses to the page GET and to
\* the password POST stored.
C12_OneCookieJar ==
    [][/\ jar \subseteq jar'
       /\ (requests' # requests) => (requests'[Len(requests')].cookies = jar)
       /\ \A i \in 1..Len(requests') :
            /\ requests'[i].cookies \subseteq jar'
            /\ \A j \in 1..i : requests'[j].cookies \subseteq requests'[i].cookies
            /\ (requests'[i].kind \in {"GET upload-url", "POST upload"}) =>
                    (requests'[i].cookies = jar')]_vars

C12_Witness ==
    /\ Sent("POST upload")
    /\ requests[1].cookies = {}
    /\ requests[2].cookies = {"csrftoken"}
    /\ requests[3].cookies = {"csrftoken", "sessionid"}
    /\ requests[4].cookies = {"csrftoken", "sessionid"}


\* C13: each stage consumes the output of the stage before it. The password
\* POST is sent while `document` is still the page of the initial GET and
\* carries the value of the first input of that page's share-password form;
\* the password POST's page then shadows the first one, the session id is
\* taken from the new page, and the upload-URL GET carries that id; the page
\* GET, the password POST and the upload-URL GET all carry the run's token.
C13_StagesChained ==
    [][/\ (pc = "post_password" /\ pc' # pc) =>
            /\ first_page = EmptyDoc /\ ShareForms(document) # {}
            /\ requests' = Append(requests, requests'[Len(requests')])
            /\ requests'[Len(requests')].kind = "POST password"
            /\ requests'[Len(requests')].csrfmiddlewaretoken =
                    document.forms[Least(ShareForms(document))].inputs[1].value
            /\ document' = document
       /\ (pc = "wait_password" /\ pc' = "extract_repo_id") =>
            /\ first_page'.scripts = document.scripts
       /\ (pc = "extract_repo_id" /\ pc' = "get_upload_url") =>
            /\ ~NoScriptMatches(document)
            /\ repo_id' = FirstMatchId(document)
            /\ UNCHANGED <<document, first_page>>
       /\ (pc = "get_upload_url" /\ pc' = "wait_upload_url") =>
            /\ requests' = Append(requests, requests'[Len(requests')])
            /\ requests'[Len(requests')].kind = "GET upload-url"
            /\ requests'[Len(requests')].repo_id = repo_id
       /\ \A i \in 1..Len(requests') :
            (requests'[i].kind # "POST upload") => (requests'[i].token = token')
       /\ token' = token]_vars

C13_Witness ==
    /\ pc = "get_upload_url"
    /\ first_page.scripts = <<(<<GoodB>>)>>
    /\ document.scripts = <<(<<GoodA>>)>>
    /\ repo_id = UuidA
    /\ requests[2].csrfmiddlewaretoken = "csrfB"
    /\ requests[1].token = requests[2].token


\* C14: whatever was typed, the empty string included, the password POST is
\* sent with exactly that string and the step cannot fail; the password
\* submission stage fails only with an error of the HTTP client, any page it
\* gets back is accepted, and "invalid token/password" is raised only by the
\* session-id extraction that follows, after the stage has returned its page.
C14_PasswordForwardedUnchecked ==
    [][/\ (pc \in {"extract_token", "post_password", "wait_password"}) =>
            (password' = password)
       /\ (pc = "post_password" /\ pc' # pc) =>
            /\ pc' = "wait_password" /\ error' = NoError
            /\ requests' = Append(requests, requests'[Len(requests')])
            /\ requests'[Len(requests')].kind = "POST password"
            /\ requests'[Len(requests')].password = password
       /\ (pc = "wait_password" /\ pc' # pc) =>
            \/ pc' = "failed" /\ error'.type = "reqwest::Error"
                 /\ error'.req = "POST password"
            \/ pc' = "extract_repo_id" /\ error' = NoError
                 /\ completed' = Append(completed, "password_submit")
       /\ (error' = InvalidCredentials /\ error # InvalidCredentials) =>
            /\ pc = "extract_repo_id"
            /\ InSeq("password_submit", completed)
            /\ NoScriptMatches(document)]_vars

C14_Witness ==
    /\ pc = "failed"
    /\ error = InvalidCredentials
    /\ password = ""
    /\ Len(requests) = 2
    /\ requests[2].password = ""
    /\ completed = <<"page_fetch", "form_token", "password_submit">>


\* C15: when every network call and the prompt return, the run ends: it
\* reaches the uploaded state or a failed one (an error returned by main, or
\* the panic of the prompt), and at no time has it sent more than four
\* requests.
C15_EndsWithinFourRequests ==
    /\ [](Len(requests) <= 4)
    /\ <>(pc \in {"done", "failed", "panicked"})
    /\ [][(pc \in {"done", "failed", "panicked"}) => UNCHANGED vars]_vars

C15_Witness ==
    /\ pc = "failed"
    /\ Len(requests) = 4
    /\ error = StrError("file upload failed")
    /\ PendingStage = "file_upload"


\* C16: the password is asked for at most once, and only when the page fetch
\* has returned its page; the form token is not looked for before the
\* password was asked for. So a run that fails in the page fetch, or before
\* it, has not asked, and a run that fails with one of the three errors of
\* extract_token has asked once and has sent no password POST.
C16_PromptOnceAfterPageFetch ==
    /\ prompts \in {0, 1}
    /\ (prompts = 1) => (Len(completed) >= 1 /\ completed[1] = "page_fetch")
    /\ InSeq("form_token", started) => (prompts = 1)
    /\ (pc = "failed" /\ ~InSeq("page_fetch", completed)) => (prompts = 0)
    /\ (error \in {StrError("no such form"), StrError("no such input"),
                   StrError("no csrfmiddlewaretoken")}) =>
            /\ pc = "failed" /\ prompts = 1
            /\ Kinds(requests) = <<"GET page">>
    /\ (pc = "panicked") => (prompts = 1 /\ started = <<"page_fetch">>)

C16_Witness ==
    /\ pc = "failed"
    /\ error = StrError("no such input")
    /\ prompts = 1
    /\ password = "secret"
    /\ ~Sent("POST password")


\* C17: the file is looked at twice. The first step passes only when it
\* exists; no step between that one and the building of the multipart form
\* fails for the file, whether it is still there or not; the form is built
\* when the page GET, the password POST and the upload-URL GET have been sent,
\* and when the file is gone by then the run fails there with the error of
\* opening it, and no upload POST is ever sent.
C17_FileOpenedAtUploadOnly ==
    [][/\ (pc = "start" /\ pc' # pc) => ((pc' = "build_client") <=> file_exists)
       /\ (pc \notin {"start", "upload_file"} /\ pc' # pc) =>
            (error' # NoSuchFile /\ error'.type # "io::Error")
       /\ (pc = "upload_file" /\ pc' # pc) =>
            /\ Kinds(requests) = <<"GET page", "POST password", "GET upload-url">>
            /\ IF file_exists
               THEN /\ pc' = "wait_upload" /\ error' = NoError
                    /\ Kinds(requests') = RequestOrder
               ELSE /\ pc' = "failed" /\ error'.type = "io::Error"
                    /\ requests' = requests
                    /\ started' = Append(started, "file_upload")
       /\ (error.type = "io::Error") => (pc' = "failed" /\ requests' = requests)]_vars

C17_Witness ==
    /\ pc = "failed"
    /\ error.type = "io::Error"
    /\ ~file_exists
    /\ Kinds(requests) = <<"GET page", "POST password", "GET upload-url">>
    /\ completed = <<"page_fetch", "form_token", "password_submit", "session_id",
                     "upload_url">>


\* C18: what extract_repo_id makes of a page is settled by the page alone:
\* with a match in some script the run goes on with the id of the first
\* match, whatever 20 hex digits stand in the matched path and whatever the
\* run's token is, and without one it fails; the upload-URL GET then carries
\* that id next to the run's own token.
C18_SessionIdIgnoresToken ==
    [][/\ (pc = "extract_repo_id" /\ pc' # pc) =>
            IF NoScriptMatches(document)
            THEN pc' = "failed" /\ repo_id' = repo_id
            ELSE pc' = "get_upload_url" /\ repo_id' = FirstMatchId(document)
       /\ (pc = "get_upload_url" /\ pc' = "wait_upload_url") =>
            /\ Len(requests') = Len(requests) + 1
            /\ requests'[Len(requests')].repo_id = repo_id
            /\ requests'[Len(requests')].token = token
            /\ requests'[Len(requests')].token = requests[1].token]_vars

C18_Witness ==
    /\ pc = "get_upload_url"
    /\ document.scripts = <<(<<GoodB>>)>>
    /\ GoodB = Ref(OtherTokenHex, UuidB)
    /\ token \in {TokenHex, TokenShort} /\ token # OtherTokenHex
    /\ repo_id = UuidB

====
